---- MODULE Spec2Model ----
(***************************************************************************)
(* Model of src/main.py: IPExtractor (IP_PATTERN, validate_ip,            *)
(* _process_chunk, extract_ips_from_file), connect_to_mongodb, main and    *)
(* the __main__ loop.                                                      *)
(*                                                                         *)
(* Bytes and characters are their ASCII codes; a chunk, a match and an     *)
(* address string are sequences of codes.                                  *)
(***************************************************************************)
EXTENDS Integers, Sequences, FiniteSets, Bags, TLC

(***************************************************************************)
(* Bytes                                                                   *)
(***************************************************************************)
\* '.'
Dot == 46

IsDigit(b) == b \in 48..57

\* \w of a bytes pattern: [a-zA-Z0-9_]
IsWord(b) == b \in 48..57 \/ b \in 65..90 \/ b \in 97..122 \/ b = 95

\* \b at the position before index i (1..Len(s)+1) of s
WordBoundary(s, i) ==
    LET left == i > 1 /\ i - 1 <= Len(s) /\ IsWord(s[i - 1])
        right == i >= 1 /\ i <= Len(s) /\ IsWord(s[i])
    IN left # right

(***************************************************************************)
(* IP_PATTERN                                                              *)
(***************************************************************************)
\* (?:25[0-5]|2[0-4][0-9]|[01]?[0-9][0-9]?) consuming exactly L bytes at p
OctetMatches(s, p, L) ==
    /\ L \in 1..3
    /\ p >= 1
    /\ p + L - 1 <= Len(s)
    /\ \A i \in p..(p + L - 1) : IsDigit(s[i])
    /\ L = 3 =>
          \/ s[p] = 50 /\ s[p + 1] = 53 /\ s[p + 2] \in 48..53
          \/ s[p] = 50 /\ s[p + 1] \in 48..52
          \/ s[p] \in 48..49

\* The rest of the pattern from octet k at p, alternatives tried longest
\* first as the backtracking matcher does; the index after the match, or 0.
RECURSIVE MatchRest(_, _, _)
MatchRest(s, p, k) ==
    LET try(L) ==
            IF ~OctetMatches(s, p, L) THEN 0
            ELSE IF k = 4
                 THEN (IF WordBoundary(s, p + L) THEN p + L ELSE 0)
                 ELSE IF p + L <= Len(s) /\ s[p + L] = Dot
                      THEN MatchRest(s, p + L + 1, k + 1)
                      ELSE 0
    IN IF try(3) # 0 THEN try(3)
       ELSE IF try(2) # 0 THEN try(2)
       ELSE try(1)

\* A match attempt at p: the index after the match, or 0
MatchAt(s, p) == IF WordBoundary(s, p) THEN MatchRest(s, p, 1) ELSE 0

\* IP_PATTERN.findall: the leftmost non-overlapping matches, scan[p] being the
\* matches from p on
findall(s) ==
    LET scan[p \in 1..(Len(s) + 1)] ==
            IF p > Len(s) THEN << >>
            ELSE IF MatchAt(s, p) # 0
                 THEN <<SubSeq(s, p, MatchAt(s, p) - 1)>> \o scan[MatchAt(s, p)]
                 ELSE scan[p + 1]
    IN scan[1]

\* The spans <<first, last>> of the matches of findall
MatchSpans(s) ==
    LET scan[p \in 1..(Len(s) + 1)] ==
            IF p > Len(s) THEN {}
            ELSE IF MatchAt(s, p) # 0
                 THEN {<<p, MatchAt(s, p) - 1>>} \cup scan[MatchAt(s, p)]
                 ELSE scan[p + 1]
    IN scan[1]

\* bytes.decode('utf-8', errors='ignore') on a match: the bytes that do not
\* decode are dropped (a match holds ASCII digits and dots only)
decode(b) == SelectSeq(b, LAMBDA x : x < 128)

(***************************************************************************)
(* ipaddress.ip_address and validate_ip                                    *)
(***************************************************************************)
ValueError == << >>

\* str.split('.')
RECURSIVE SplitFrom(_, _, _)
SplitFrom(s, p, cur) ==
    IF p > Len(s) THEN <<cur>>
    ELSE IF s[p] = Dot THEN <<cur>> \o SplitFrom(s, p + 1, << >>)
    ELSE SplitFrom(s, p + 1, Append(cur, s[p]))

split(s) == SplitFrom(s, 1, << >>)

RECURSIVE int(_)
int(ds) == IF ds = << >> THEN 0
           ELSE 10 * int(SubSeq(ds, 1, Len(ds) - 1)) + (ds[Len(ds)] - 48)

\* IPv4Address._parse_octet: -1 stands for ValueError
parse_octet(o) ==
    IF o = << >> THEN -1
    ELSE IF \E i \in 1..Len(o) : ~IsDigit(o[i]) THEN -1
    ELSE IF Len(o) > 3 THEN -1
    ELSE IF o # <<48>> /\ o[1] = 48 THEN -1
    ELSE IF int(o) > 255 THEN -1
    ELSE int(o)

\* ipaddress.ip_address on a string: the four octets, or ValueError
ip_address(ip) ==
    LET octets == split(ip)
    IN IF Len(octets) # 4 THEN ValueError
       ELSE IF \E i \in 1..4 : parse_octet(octets[i]) = -1 THEN ValueError
       ELSE [i \in 1..4 |-> parse_octet(octets[i])]

RECURSIVE Pow2(_)
Pow2(n) == IF n = 0 THEN 1 ELSE 2 * Pow2(n - 1)

\* ip_obj in network: equal on the first prefixlen bits
InNetwork(a, net) ==
    \A i \in 1..4 :
        LET b == net.prefixlen - 8 * (i - 1)
            bits == IF b < 0 THEN 0 ELSE IF b > 8 THEN 8 ELSE b
        IN a[i] \div Pow2(8 - bits) = net.address[i] \div Pow2(8 - bits)

\* 172.16.0.0/16 written for 172.16.0.0/12
PRIVATE_NETWORKS_slash16 ==
    << [address |-> <<10, 0, 0, 0>>, prefixlen |-> 8],
       [address |-> <<172, 16, 0, 0>>, prefixlen |-> 16],
       [address |-> <<192, 168, 0, 0>>, prefixlen |-> 16] >>

PRIVATE_NETWORKS ==
    << [address |-> <<10, 0, 0, 0>>, prefixlen |-> 8],
       [address |-> <<172, 16, 0, 0>>, prefixlen |-> 12],
       [address |-> <<192, 168, 0, 0>>, prefixlen |-> 16] >>

is_unspecified(a) == a = <<0, 0, 0, 0>>
is_reserved(a) == InNetwork(a, [address |-> <<240, 0, 0, 0>>, prefixlen |-> 4])
is_multicast(a) == InNetwork(a, [address |-> <<224, 0, 0, 0>>, prefixlen |-> 4])

validate_ip(ip) ==
    LET ip_obj == ip_address(ip)
    IN IF ip_obj = ValueError THEN FALSE
       ELSE /\ ~(is_unspecified(ip_obj) \/ is_reserved(ip_obj) \/ is_multicast(ip_obj))
            /\ \E n \in 1..Len(PRIVATE_NETWORKS) : InNetwork(ip_obj, PRIVATE_NETWORKS[n])

(***************************************************************************)
(* _process_chunk                                                          *)
(***************************************************************************)
_process_chunk(chunk) ==
    LET m == findall(chunk)
        ips == {decode(m[i]) : i \in 1..Len(m)}
    IN [private |-> {ip \in ips : validate_ip(ip)},
        public |-> {ip \in ips : ~validate_ip(ip)}]

(***************************************************************************)
(* sorted(): lexicographic order of str                                    *)
(***************************************************************************)
RECURSIVE LexLess(_, _)
LexLess(a, b) ==
    IF b = << >> THEN FALSE
    ELSE IF a = << >> THEN TRUE
    ELSE IF a[1] # b[1] THEN a[1] < b[1]
    ELSE LexLess(Tail(a), Tail(b))

\* sorted(..., reverse=True)
RECURSIVE sorted_reverse(_)
sorted_reverse(S) ==
    IF S = {} THEN << >>
    ELSE LET m == CHOOSE x \in S : \A y \in S \ {x} : LexLess(y, x)
         IN <<m>> \o sorted_reverse(S \ {m})

RECURSIVE sorted(_)
sorted(S) ==
    IF S = {} THEN << >>
    ELSE LET m == CHOOSE x \in S : \A y \in S \ {x} : LexLess(x, y)
         IN <<m>> \o sorted(S \ {m})

(***************************************************************************)
(* Inputs: log files                                                       *)
(***************************************************************************)
MaxTokens == 1
MaxChunkSize == 9
MaxChunks == 4

\* str(n) for 0 <= n <= 999
Dec(n) ==
    IF n < 10 THEN <<48 + n>>
    ELSE IF n < 100 THEN <<48 + (n \div 10), 48 + (n % 10)>>
    ELSE <<48 + (n \div 100), 48 + ((n \div 10) % 10), 48 + (n % 10)>>

Dotted(a, b, c, d) == a \o <<Dot>> \o b \o <<Dot>> \o c \o <<Dot>> \o d

IPv4(a, b, c, d) == Dotted(Dec(a), Dec(b), Dec(c), Dec(d))

\* Pieces of a log line: addresses, ' ' and 'x'
Tokens ==
    { IPv4(2, 2, 2, 2), IPv4(100, 0, 0, 1), IPv4(10, 0, 0, 5),
      IPv4(0, 0, 0, 0), IPv4(224, 0, 0, 1), <<32>>, <<120>> }

RECURSIVE Concat(_)
Concat(ts) == IF ts = << >> THEN << >> ELSE Head(ts) \o Concat(Tail(ts))

\* Log contents of at most n tokens
TokenContents(n) ==
    { Concat(ts) : ts \in UNION { [1..k -> Tokens] : k \in 0..n } }

\* Single addresses around the ends of the classifier's ranges
EdgeContents ==
    { IPv4(a, b, c, c) :
        a \in {0, 9, 10, 11, 127, 169, 172, 192, 223, 224, 239, 240, 255},
        b \in {0, 15, 16, 31, 32, 168, 254, 255},
        c \in {0, 255} }

\* Matches of the pattern that ip_address rejects, '256.1.1.1', addresses next
\* to the bytes 0xE9 and '_', and lines of several addresses
OddContents ==
    { Dotted(<<48, 49, 48>>, Dec(0), Dec(0), Dec(5)),
      Dotted(Dec(10), Dec(0), Dec(0), <<48, 53>>),
      Dotted(<<48, 48>>, Dec(0), Dec(0), Dec(0)),
      IPv4(256, 1, 1, 1),
      <<233>> \o IPv4(10, 0, 0, 5) \o <<233>>,
      <<95>> \o IPv4(2, 2, 2, 2),
      IPv4(0, 0, 0, 0) \o <<120>>,
      IPv4(10, 0, 0, 5) \o <<32>> \o IPv4(2, 2, 2, 2),
      IPv4(2, 2, 2, 2) \o <<32, 32>> \o IPv4(2, 2, 2, 2) \o <<32, 32>> \o IPv4(100, 0, 0, 1) }

RegularFile(c) == [kind |-> "file", content |-> c]
MissingFile == [kind |-> "missing", content |-> << >>]
Directory == [kind |-> "dir", content |-> << >>]

\* Files read at every chunk size
ExtractFiles ==
    {MissingFile, Directory}
        \cup { RegularFile(c) : c \in TokenContents(MaxTokens) \cup OddContents }

\* Files read at the default chunk size
EdgeFiles == { RegularFile(c) : c \in EdgeContents }

\* The contents other processes give the log
LogContents ==
    { << >>,
      IPv4(10, 0, 0, 5) \o <<32>> \o IPv4(2, 2, 2, 2),
      IPv4(10, 0, 0, 5) \o <<32>> \o IPv4(2, 2, 2, 2) \o <<32>> \o IPv4(192, 168, 0, 9) }

LogFiles == {MissingFile} \cup {RegularFile(c) : c \in LogContents}

\* chunk_size=1024 * 1024
DefaultChunkSize == 1048576

\* chunk_size: int; read(0) returns b'', read(-1) reads to the end of the file,
\* read(n) raises for n < -1
ChunkSizes == ((0 - 2)..MaxChunkSize) \cup {DefaultChunkSize}

\* os.path.isfile
isfile(f) == f.kind = "file"

\* os.path.getsize of an existing path (a directory has a size, not 0)
getsize(f) == IF f.kind = "dir" THEN 4096 ELSE Len(f.content)

\* The number of non-empty reads of n bytes that the loop of lines 60-65
\* makes over len bytes
NumReads(len, n) ==
    IF len <= 0 THEN 0
    ELSE IF n >= 1 THEN (len + n - 1) \div n
    ELSE IF n = 0 - 1 THEN 1
    ELSE 0

NumChunks(c, size) == NumReads(Len(c), size)

(***************************************************************************)
(* State                                                                   *)
(***************************************************************************)
VARIABLES
    pc,             \* position of the process
    file,           \* what the path of the log names on disk
    handle,         \* the content of the file that was opened
    linked,         \* the path still names the file that was opened
    chunk_size,     \* extract_ips_from_file's parameter
    raw_pos,        \* position of the file object's descriptor in the file
    buffer,         \* bytes the file object read ahead and has not returned
    chunk,          \* bytes gathered by the file.read call in progress
    want,           \* bytes the call asks of its next read of the descriptor
    futures,        \* the chunks submitted to the pool, in submission order
    collected,      \* futures as_completed has yielded
    private_acc,    \* private_ips of extract_ips_from_file
    public_acc,     \* public_ips of extract_ips_from_file
    file_open,      \* the file handle of the with block
    pool_open,      \* the ProcessPoolExecutor of the with block
    result,         \* what extract_ips_from_file returned
    log,            \* the last logging.error of the run, << >> if none
    private_ips,    \* main's locals
    public_ips,
    private_coll,   \* the collections of the store, bags of documents
    public_coll,
    client_open,    \* main's client is connected and not closed
    unclosed,       \* a client of an earlier run was never closed
    deleted_count   \* documents removed by the run's delete_many calls

disk_vars == <<file, handle, linked>>
reader_vars == <<raw_pos, buffer, chunk, want>>
extract_vars == <<chunk_size, reader_vars, futures, collected, private_acc, public_acc,
                  file_open, pool_open, result>>
main_vars == <<private_ips, public_ips, private_coll, public_coll, client_open, unclosed,
               deleted_count>>
vars == <<pc, disk_vars, log, extract_vars, main_vars>>

NoResult == [private |-> << >>, public |-> << >>]

ExtractInit ==
    /\ handle = << >>
    /\ linked = FALSE
    /\ raw_pos = 0
    /\ buffer = << >>
    /\ chunk = << >>
    /\ want = 0
    /\ futures = << >>
    /\ collected = {}
    /\ private_acc = {}
    /\ public_acc = {}
    /\ file_open = FALSE
    /\ pool_open = FALSE
    /\ result = NoResult
    /\ log = << >>

MainInit ==
    /\ private_ips = << >>
    /\ public_ips = << >>
    /\ private_coll = EmptyBag
    /\ public_coll = EmptyBag
    /\ client_open = FALSE
    /\ unclosed = FALSE
    /\ deleted_count = 0

(***************************************************************************)
(* extract_ips_from_file                                                   *)
(***************************************************************************)
\* The accumulator rebound to the chunk's set instead of updated
update_rebinds(acc, s) == s

\* set.update
update(acc, s) == acc \cup s

\* Line 51: log, return [], []
invalid_file ==
    /\ log' = <<"Invalid file">>
    /\ result' = NoResult
    /\ pc' = "x_return"
    /\ UNCHANGED <<disk_vars, chunk_size, reader_vars, futures, collected, private_acc, public_acc,
                   file_open, pool_open, main_vars>>

\* The with block of line 56 is left: the file object is closed
file_closed ==
    /\ file_open' = FALSE
    /\ handle' = << >>
    /\ linked' = FALSE
    /\ raw_pos' = 0
    /\ buffer' = << >>
    /\ chunk' = << >>
    /\ want' = 0

\* with-block exits and "except Exception": log, return [], []
extract_except(e) ==
    /\ file_closed
    /\ pool_open' = FALSE
    /\ log' = <<"Processing error", e>>
    /\ result' = NoResult
    /\ pc' = "x_return"
    /\ UNCHANGED <<file, chunk_size, futures, collected, private_acc, public_acc,
                   main_vars>>

\* Line 49: os.path.isfile is false, the path is missing or no regular file
NotRegularFile ==
    /\ pc = "x_check"
    /\ ~isfile(file)
    /\ invalid_file

\* Line 49: os.path.isfile is true, os.path.getsize is called next
IsRegularFile ==
    /\ pc = "x_check"
    /\ isfile(file)
    /\ pc' = "x_getsize"
    /\ UNCHANGED <<disk_vars, log, extract_vars, main_vars>>

\* Line 49: os.path.getsize is 0
EmptyFile ==
    /\ pc = "x_getsize"
    /\ file.kind # "missing"
    /\ getsize(file) = 0
    /\ invalid_file

\* Line 49: the path was removed after os.path.isfile; os.path.getsize raises
\* FileNotFoundError outside the try, which leaves extract_ips_from_file
GetsizeRaises ==
    /\ pc = "x_getsize"
    /\ file.kind = "missing"
    /\ pc' = "x_raised"
    /\ UNCHANGED <<disk_vars, log, extract_vars, main_vars>>

\* Lines 49-53: the size is not 0, the accumulators are made
SizeChecked ==
    /\ pc = "x_getsize"
    /\ file.kind # "missing"
    /\ getsize(file) # 0
    /\ private_acc' = {}
    /\ public_acc' = {}
    /\ pc' = "x_open"
    /\ UNCHANGED <<disk_vars, log, chunk_size, reader_vars, futures, collected, file_open,
                   pool_open, result, main_vars>>

\* Lines 56-59: open(), ProcessPoolExecutor()
OpenFile ==
    /\ pc = "x_open"
    /\ isfile(file)
    /\ handle' = file.content
    /\ linked' = TRUE
    /\ futures' = << >>
    /\ collected' = {}
    /\ raw_pos' = 0
    /\ buffer' = << >>
    /\ chunk' = << >>
    /\ want' = 0
    /\ file_open' = TRUE
    /\ pool_open' = TRUE
    /\ pc' = "x_read"
    /\ UNCHANGED <<file, chunk_size, private_acc, public_acc, result, log, main_vars>>

\* open() or ProcessPoolExecutor() raises
OpenRaises ==
    /\ pc = "x_open"
    /\ extract_except("open")

\* The buffer of the file object: st_blksize of the file
BufferSize == 4096

\* SMALLCHUNK of FileIO.readall
SMALLCHUNK == 8192

\* What BufferedReader.read asks of the descriptor when it still needs
\* remaining bytes: whole blocks read directly, or else the buffer filled
block_want(remaining) ==
    IF remaining >= BufferSize THEN (remaining \div BufferSize) * BufferSize ELSE BufferSize

\* The first request of a file.read call. read(-1) is FileIO.readall, which
\* asks for one byte more than fstat says are left
first_want ==
    IF chunk_size = 0 - 1
    THEN (IF Len(handle) > 0 /\ Len(handle) >= raw_pos
          THEN Len(handle) - raw_pos + 1 ELSE SMALLCHUNK)
    ELSE block_want(chunk_size - Len(buffer))

\* new_buffersize of FileIO.readall, less the bytes read so far: the buffer
\* grows by 256 more than the bytes read, by an eighth of them above 65536,
\* and by SMALLCHUNK at least
buffer_growth(bytes_read) ==
    LET addend == IF bytes_read > 65536 THEN bytes_read \div 8 ELSE 256 + bytes_read
    IN IF addend < SMALLCHUNK THEN SMALLCHUNK ELSE addend

\* The request after a read that returned r bytes and left the call short:
\* readall asks for what is left of its buffer, and grows the buffer once it
\* is full (with chunk_size = -1 no bytes are read ahead, so chunk holds the
\* bytes readall has read); BufferedReader.read asks for whole blocks again,
\* or for the free part of the buffer
next_want(r) ==
    IF chunk_size = 0 - 1
    THEN (IF r = want THEN buffer_growth(Len(chunk) + r) ELSE want - r)
    ELSE IF chunk_size - Len(chunk) >= BufferSize
         THEN block_want(chunk_size - Len(chunk) - r)
         ELSE want - r

\* What a read of want bytes of the descriptor returns: the bytes of the file
\* from raw_pos on, want of them at most
raw_read ==
    IF raw_pos < Len(handle)
    THEN SubSeq(handle, raw_pos + 1,
                IF raw_pos + want < Len(handle) THEN raw_pos + want ELSE Len(handle))
    ELSE << >>

\* Line 61: file.read(chunk_size) takes the bytes read ahead and goes on to
\* read the descriptor; chunk_size = -1 reads to the end of the file
ReadBegins ==
    /\ pc = "x_read"
    /\ (chunk_size >= 1 /\ Len(buffer) < chunk_size) \/ chunk_size = 0 - 1
    /\ chunk' = buffer
    /\ buffer' = << >>
    /\ want' = first_want
    /\ pc' = "x_fill"
    /\ UNCHANGED <<disk_vars, chunk_size, raw_pos, futures, collected, private_acc,
                   public_acc, file_open, pool_open, result, log, main_vars>>

\* Line 61: a read of the descriptor returns bytes, fewer than file.read
\* still needs; file.read reads again
RawRead ==
    /\ pc = "x_fill"
    /\ raw_read # << >>
    /\ chunk_size >= 1 => Len(chunk) + Len(raw_read) < chunk_size
    /\ chunk' = chunk \o raw_read
    /\ raw_pos' = raw_pos + Len(raw_read)
    /\ want' = next_want(Len(raw_read))
    /\ UNCHANGED <<pc, disk_vars, chunk_size, buffer, futures, collected, private_acc,
                   public_acc, file_open, pool_open, result, log, main_vars>>

\* Lines 61-65: file.read(chunk_size) returns a non-empty chunk, which is
\* submitted: the chunk is served from the bytes read ahead, or a read of the
\* descriptor completes it and the bytes beyond it stay in the buffer, or the
\* end of the file cuts it short
ReadChunk ==
    /\ \/ /\ pc = "x_read"
          /\ chunk_size >= 1
          /\ Len(buffer) >= chunk_size
          /\ futures' = Append(futures, SubSeq(buffer, 1, chunk_size))
          /\ buffer' = SubSeq(buffer, chunk_size + 1, Len(buffer))
          /\ UNCHANGED raw_pos
       \/ /\ pc = "x_fill"
          /\ raw_read # << >>
          /\ chunk_size >= 1
          /\ Len(chunk) + Len(raw_read) >= chunk_size
          /\ futures' = Append(futures, chunk \o SubSeq(raw_read, 1, chunk_size - Len(chunk)))
          /\ buffer' = SubSeq(raw_read, chunk_size - Len(chunk) + 1, Len(raw_read))
          /\ raw_pos' = raw_pos + Len(raw_read)
       \/ /\ pc = "x_fill"
          /\ raw_read = << >>
          /\ chunk # << >>
          /\ futures' = Append(futures, chunk)
          /\ UNCHANGED <<buffer, raw_pos>>
    /\ chunk' = << >>
    /\ want' = 0
    /\ pc' = "x_read"
    /\ UNCHANGED <<disk_vars, chunk_size, collected, private_acc, public_acc,
                   file_open, pool_open, result, log, main_vars>>

\* Lines 61-63: file.read(chunk_size) returns b'', at the end of the file or
\* for chunk_size = 0
ReadEOF ==
    /\ \/ pc = "x_read" /\ chunk_size = 0
       \/ pc = "x_fill" /\ raw_read = << >> /\ chunk = << >>
    /\ want' = 0
    /\ pc' = "x_collect"
    /\ UNCHANGED <<disk_vars, log, chunk_size, raw_pos, buffer, chunk, futures, collected,
                   private_acc, public_acc, file_open, pool_open, result, main_vars>>

\* file.read (always for chunk_size < -1) or executor.submit raises
ReadRaises ==
    /\ pc \in {"x_read", "x_fill"}
    /\ extract_except("read")

\* Lines 68-71: as_completed yields future i, whose worker returned
Collect(i) ==
    /\ pc = "x_collect"
    /\ i \in (1..Len(futures)) \ collected
    /\ LET r == _process_chunk(futures[i])
       IN /\ private_acc' = update(private_acc, r.private)
          /\ public_acc' = update(public_acc, r.public)
    /\ collected' = collected \cup {i}
    /\ UNCHANGED <<pc, disk_vars, chunk_size, reader_vars, futures, file_open, pool_open, result,
                   log, main_vars>>

\* Line 69: future.result() raises what the worker raised
WorkerRaises(i) ==
    /\ pc = "x_collect"
    /\ i \in (1..Len(futures)) \ collected
    /\ extract_except("worker")

\* Every future is collected: the with blocks are left (pool shut down, file
\* closed) and line 76 returns the sorted lists
ReturnSorted ==
    /\ pc = "x_collect"
    /\ collected = 1..Len(futures)
    /\ file_closed
    /\ pool_open' = FALSE
    /\ result' = [private |-> sorted(private_acc), public |-> sorted(public_acc)]
    /\ pc' = "x_return"
    /\ UNCHANGED <<file, chunk_size, futures, collected, private_acc, public_acc,
                   log, main_vars>>

ExtractNext ==
    \/ NotRegularFile
    \/ IsRegularFile
    \/ EmptyFile
    \/ GetsizeRaises
    \/ SizeChecked
    \/ OpenFile
    \/ OpenRaises
    \/ ReadBegins
    \/ RawRead
    \/ ReadChunk
    \/ ReadEOF
    \/ ReadRaises
    \/ \E i \in 1..Len(futures) : WorkerRaises(i)
    \/ \E i \in 1..Len(futures) : Collect(i)
    \/ ReturnSorted

(***************************************************************************)
(* Other processes, at any time                                            *)
(***************************************************************************)
\* Content c keeps the reads of a run within MaxChunks chunks
WithinChunks(c) ==
    /\ NumChunks(c, chunk_size) <= MaxChunks
    /\ file_open /\ linked =>
          Len(futures)
            + NumReads(Len(buffer) + Len(chunk)
                         + (IF Len(c) > raw_pos THEN Len(c) - raw_pos ELSE 0), chunk_size)
          <= MaxChunks

\* The log is appended to, truncated or overwritten in place; later reads of
\* the descriptor of an open file object on it return the new content, and
\* the bytes read ahead stay as they were read
LogWritten ==
    /\ file.kind = "file"
    /\ \E c \in LogContents \ {file.content} :
          /\ WithinChunks(c)
          /\ file' = RegularFile(c)
          /\ handle' = IF file_open /\ linked THEN c ELSE handle
    /\ UNCHANGED <<pc, linked, log, extract_vars, main_vars>>

\* The log is removed, created, or replaced by another file; an open file
\* object keeps the file it was opened on
LogReplaced ==
    /\ file' \in LogFiles \ {file}
    /\ NumChunks(file'.content, chunk_size) <= MaxChunks
    /\ linked' = FALSE
    /\ UNCHANGED <<pc, handle, log, extract_vars, main_vars>>

Environment == LogWritten \/ LogReplaced

\* extract_ips_from_file called on a file with a chunk size
ExtractSpecInit ==
    /\ pc = "x_check"
    /\ \/ file \in ExtractFiles /\ chunk_size \in ChunkSizes
       \/ file \in EdgeFiles /\ chunk_size = DefaultChunkSize
    /\ NumChunks(file.content, chunk_size) <= MaxChunks
    /\ ExtractInit
    /\ MainInit

ExtractSpecNext == ExtractNext \/ Environment

ExtractSpec == ExtractSpecInit /\ [][ExtractSpecNext]_vars

(***************************************************************************)
(* connect_to_mongodb, main and the __main__ loop                          *)
(***************************************************************************)
\* [{'ip': ip} for ip in ips], the first k of them
RECURSIVE Documents(_, _)
Documents(ips, k) ==
    IF k = 0 THEN EmptyBag
    ELSE Documents(ips, k - 1) (+) SetToBag({[ip |-> ips[k]]})

\* The exception leaving main and ending the process
main_except_propagates(e) ==
    /\ log' = <<"Execution error", e>>
    /\ unclosed' = (unclosed \/ client_open)
    /\ client_open' = FALSE
    /\ pc' = "crashed"

\* Lines 175-176: "except Exception" of main logs and main returns; line 173
\* was not reached, the client of the run stays connected
main_except(e) ==
    /\ log' = <<"Execution error", e>>
    /\ unclosed' = (unclosed \/ client_open)
    /\ client_open' = FALSE
    /\ pc' = "sleep"

\* Lines 179-182 and 137-145: the loop calls main
CallMain ==
    /\ pc = "loop"
    /\ log' = << >>
    /\ private_ips' = << >>
    /\ public_ips' = << >>
    /\ deleted_count' = 0
    /\ pc' = "m_connect"
    /\ UNCHANGED <<disk_vars, extract_vars, private_coll, public_coll, client_open, unclosed>>

\* Lines 116-129 and 148-155: the ping succeeds, main calls
\* extract_ips_from_file(log_file)
Connect ==
    /\ pc = "m_connect"
    /\ client_open' = TRUE
    /\ chunk_size' = DefaultChunkSize
    /\ pc' = "x_check"
    /\ UNCHANGED <<disk_vars, log, reader_vars, futures, collected, private_acc, public_acc,
                   file_open, pool_open, result, private_ips, public_ips,
                   private_coll, public_coll, unclosed, deleted_count>>

\* Lines 118, 131-133 and 150-152: MongoClient() raises, no client is made;
\* main returns
ClientRaises ==
    /\ pc = "m_connect"
    /\ log' = <<"MongoDB connection failed">>
    /\ pc' = "sleep"
    /\ UNCHANGED <<disk_vars, extract_vars, main_vars>>

\* Lines 118-121, 131-133 and 150-152: the client is made and the ping (or a
\* later line of the try) raises; the client is dropped without close(), main
\* returns
ConnectFails ==
    /\ pc = "m_connect"
    /\ log' = <<"MongoDB connection failed">>
    /\ unclosed' = TRUE
    /\ pc' = "sleep"
    /\ UNCHANGED <<disk_vars, extract_vars, private_ips, public_ips, private_coll,
                   public_coll, client_open, deleted_count>>

\* The frame of extract_ips_from_file is left, its locals are gone
frame_left ==
    /\ UNCHANGED reader_vars
    /\ futures' = << >>
    /\ collected' = {}
    /\ private_acc' = {}
    /\ public_acc' = {}
    /\ result' = NoResult
    /\ UNCHANGED <<chunk_size, file_open, pool_open>>

\* Line 155: private_ips, public_ips = the returned pair
ExtractReturns ==
    /\ pc = "x_return"
    /\ private_ips' = result.private
    /\ public_ips' = result.public
    /\ frame_left
    /\ pc' = "m_delete_private"
    /\ UNCHANGED <<disk_vars, log, private_coll, public_coll, client_open,
                   unclosed, deleted_count>>

\* Line 155: the exception of line 49 reaches the handler of main
ExtractRaises ==
    /\ pc = "x_raised"
    /\ main_except("getsize")
    /\ frame_left
    /\ UNCHANGED <<disk_vars, private_ips, public_ips, private_coll,
                   public_coll, deleted_count>>

\* The private collection left as it was
DeletePrivate_skipped ==
    /\ pc = "m_delete_private"
    /\ pc' = "m_delete_public"
    /\ UNCHANGED <<disk_vars, log, extract_vars, main_vars>>

\* Line 158: private_coll.delete_many({})
DeletePrivate ==
    /\ pc = "m_delete_private"
    /\ deleted_count' = deleted_count + BagCardinality(private_coll)
    /\ private_coll' = EmptyBag
    /\ pc' = "m_delete_public"
    /\ UNCHANGED <<disk_vars, log, extract_vars, private_ips, public_ips, public_coll,
                   client_open, unclosed>>

\* Line 159: public_coll.delete_many({})
DeletePublic ==
    /\ pc = "m_delete_public"
    /\ deleted_count' = deleted_count + BagCardinality(public_coll)
    /\ public_coll' = EmptyBag
    /\ pc' = "m_insert_private"
    /\ UNCHANGED <<disk_vars, log, extract_vars, private_ips, public_ips, private_coll,
                   client_open, unclosed>>

\* A delete_many raises, with none, some or all of the collection's
\* documents removed
DeleteRaises ==
    /\ \/ /\ pc = "m_delete_private"
          /\ private_coll' \in SubBag(private_coll)
          /\ deleted_count' = deleted_count + BagCardinality(private_coll)
                                 - BagCardinality(private_coll')
          /\ UNCHANGED public_coll
       \/ /\ pc = "m_delete_public"
          /\ public_coll' \in SubBag(public_coll)
          /\ deleted_count' = deleted_count + BagCardinality(public_coll)
                                 - BagCardinality(public_coll')
          /\ UNCHANGED private_coll
    /\ main_except("delete_many")
    /\ UNCHANGED <<disk_vars, extract_vars, private_ips, public_ips>>

\* Lines 162-163
InsertPrivate ==
    /\ pc = "m_insert_private"
    /\ private_coll' = IF private_ips # << >>
                       THEN private_coll (+) Documents(private_ips, Len(private_ips))
                       ELSE private_coll
    /\ pc' = "m_insert_public"
    /\ UNCHANGED <<disk_vars, log, extract_vars, private_ips, public_ips, public_coll,
                   client_open, unclosed, deleted_count>>

\* Line 163 raises after k documents were written, all of them at most
InsertPrivateRaises(k) ==
    /\ pc = "m_insert_private"
    /\ private_ips # << >>
    /\ k \in 0..Len(private_ips)
    /\ private_coll' = private_coll (+) Documents(private_ips, k)
    /\ main_except("insert_many")
    /\ UNCHANGED <<disk_vars, extract_vars, private_ips, public_ips, public_coll,
                   deleted_count>>

\* Lines 164-165
InsertPublic ==
    /\ pc = "m_insert_public"
    /\ public_coll' = IF public_ips # << >>
                      THEN public_coll (+) Documents(public_ips, Len(public_ips))
                      ELSE public_coll
    /\ pc' = "m_close"
    /\ UNCHANGED <<disk_vars, log, extract_vars, private_ips, public_ips, private_coll,
                   client_open, unclosed, deleted_count>>

\* Line 165 raises after k documents were written, all of them at most
InsertPublicRaises(k) ==
    /\ pc = "m_insert_public"
    /\ public_ips # << >>
    /\ k \in 0..Len(public_ips)
    /\ public_coll' = public_coll (+) Documents(public_ips, k)
    /\ main_except("insert_many")
    /\ UNCHANGED <<disk_vars, extract_vars, private_ips, public_ips, private_coll,
                   deleted_count>>

\* Lines 168-173: the counts are printed, client.close()
Close ==
    /\ pc = "m_close"
    /\ client_open' = FALSE
    /\ pc' = "sleep"
    /\ UNCHANGED <<disk_vars, log, extract_vars, private_ips, public_ips, private_coll,
                   public_coll, unclosed, deleted_count>>

\* Lines 183-184: main has returned, its locals are gone; time.sleep(10) is
\* entered
Sleep ==
    /\ pc = "sleep"
    /\ private_ips' = << >>
    /\ public_ips' = << >>
    /\ deleted_count' = 0
    /\ pc' = "sleeping"
    /\ UNCHANGED <<disk_vars, log, extract_vars, private_coll, public_coll, client_open,
                   unclosed>>

\* time.sleep(10) returns, the loop goes round
WakeUp ==
    /\ pc = "sleeping"
    /\ pc' = "loop"
    /\ UNCHANGED <<disk_vars, log, extract_vars, main_vars>>

Program ==
    \/ CallMain
    \/ Connect
    \/ ClientRaises
    \/ ConnectFails
    \/ ExtractNext
    \/ ExtractReturns
    \/ ExtractRaises
    \/ DeletePrivate
    \/ DeletePublic
    \/ DeleteRaises
    \/ InsertPrivate
    \/ \E k \in 0..Len(private_ips) : InsertPrivateRaises(k)
    \/ InsertPublic
    \/ \E k \in 0..Len(public_ips) : InsertPublicRaises(k)
    \/ Close
    \/ Sleep
    \/ WakeUp

Next == Program \/ Environment

Init ==
    /\ pc = "loop"
    /\ file \in LogFiles
    /\ chunk_size = DefaultChunkSize
    /\ ExtractInit
    /\ MainInit

Spec == Init /\ [][Next]_vars

\* The process is scheduled and every call it makes returns or raises
FairSpec == Spec /\ WF_vars(Program)

(***************************************************************************)
(* Properties                                                              *)
(***************************************************************************)
Range(q) == {q[i] : i \in 1..Len(q)}

\* The chunks of content c under chunk size n, by position
Chunks(c, n) ==
    [k \in 1..NumChunks(c, n) |->
        IF n >= 1
        THEN SubSeq(c, (k - 1) * n + 1, IF k * n < Len(c) THEN k * n ELSE Len(c))
        ELSE c]

\* The distinct candidates the pattern finds in chunk ch
ChunkCandidates(ch) == {decode(m) : m \in Range(findall(ch))}

\* The distinct candidates found across all chunks read from the file
Candidates == UNION {ChunkCandidates(ch) : ch \in Range(futures)}

Parses(ip) == ip_address(ip) # ValueError

\* Unspecified, reserved (240.0.0.0/4) or multicast (224.0.0.0/4)
Excluded(ip) ==
    /\ Parses(ip)
    /\ LET a == ip_address(ip)
       IN a = <<0, 0, 0, 0>> \/ a[1] >= 224

\* 10.0.0.0/8, 172.16.0.0/12 or 192.168.0.0/16, by octets
InPrivateRanges(ip) ==
    LET a == ip_address(ip)
    IN \/ a[1] = 10
       \/ a[1] = 172 /\ a[2] \in 16..31
       \/ a[1] = 192 /\ a[2] = 168

\* a before b in the order of str
StrLess(a, b) ==
    \E k \in 1..Len(b) :
        /\ k - 1 <= Len(a)
        /\ \A j \in 1..(k - 1) : a[j] = b[j]
        /\ k > Len(a) \/ a[k] < b[k]

StrictlyIncreasing(q) == \A i \in 1..(Len(q) - 1) : StrLess(q[i], q[i + 1])

Returned == pc = "x_return"
ReturnedNormally == pc = "x_return" /\ log = << >>

\* The run read the content the file has, cut at the chunk size
ReadAsChunked == futures = Chunks(file.content, chunk_size)

\* C1: every unspecified, reserved or multicast candidate found in the file is
\* in neither the private nor the public result.
C1_ExcludedInNeitherResult ==
    Returned =>
        \A ip \in Candidates :
            Excluded(ip) => ip \notin Range(result.private) /\ ip \notin Range(result.public)

\* C2: a candidate that parses and is not excluded is in the private result
\* iff it lies in 10/8, 172.16/12 or 192.168/16 and in the public result
\* otherwise; the ends of the ranges are private, their neighbours, loopback
\* and link-local are public.
C2_PrivateIffInRanges ==
    ReturnedNormally =>
        /\ \A ip \in Candidates :
               Parses(ip) /\ ~Excluded(ip) =>
                   /\ ip \in Range(result.private) <=> InPrivateRanges(ip)
                   /\ ip \in Range(result.public) <=> ~InPrivateRanges(ip)
        /\ \A ip \in { IPv4(10, 0, 0, 0), IPv4(10, 255, 255, 255), IPv4(172, 16, 0, 0),
                       IPv4(172, 31, 255, 255), IPv4(192, 168, 0, 0),
                       IPv4(192, 168, 255, 255) } :
               ip \in Candidates => ip \in Range(result.private)
        /\ \A ip \in { IPv4(172, 15, 255, 255), IPv4(172, 32, 0, 0), IPv4(11, 0, 0, 0),
                       IPv4(127, 0, 0, 0), IPv4(127, 255, 255, 255),
                       IPv4(169, 254, 0, 0), IPv4(169, 254, 255, 255) } :
               ip \in Candidates => ip \in Range(result.public)

C2_Witness ==
    /\ ReturnedNormally
    /\ futures = <<IPv4(172, 31, 255, 255)>>
    /\ result.private = <<IPv4(172, 31, 255, 255)>>
    /\ result.public = << >>

\* C3: the private and public results share no address, and their sizes plus
\* the number of excluded candidates equal the number of distinct candidates.
C3_Partition ==
    ReturnedNormally =>
        /\ Range(result.private) \cap Range(result.public) = {}
        /\ Len(result.private) + Len(result.public)
             + Cardinality({ip \in Candidates : Excluded(ip)})
           = Cardinality(Candidates)

\* No match of the whole content has bytes on both sides of a chunk boundary
NoStraddle ==
    \A sp \in MatchSpans(file.content) :
        \A k \in 1..NumChunks(file.content, chunk_size) :
            ~(sp[1] <= k * chunk_size /\ k * chunk_size < sp[2])

WholeFileResult ==
    LET r == _process_chunk(file.content)
    IN [private |-> sorted(r.private), public |-> sorted(r.public)]

\* C4: when the content is fixed and no IPv4 literal of it straddles a chunk
\* boundary, the result equals that of scanning the whole file as one chunk.
C4_ChunkSizeIndependent ==
    ReturnedNormally /\ isfile(file) /\ ReadAsChunked /\ NoStraddle => result = WholeFileResult

\* C5: whatever the order in which the futures complete, the accumulators are
\* the unions of the sets of the futures collected so far, and the result is
\* the sorted union over all futures.
C5_CompletionOrderIndependent ==
    /\ pc = "x_collect" =>
          /\ private_acc = UNION {_process_chunk(futures[i]).private : i \in collected}
          /\ public_acc = UNION {_process_chunk(futures[i]).public : i \in collected}
    /\ ReturnedNormally =>
          /\ Range(result.private)
               = UNION {_process_chunk(futures[i]).private : i \in 1..Len(futures)}
          /\ Range(result.public)
               = UNION {_process_chunk(futures[i]).public : i \in 1..Len(futures)}

\* The last future was collected first, and first of several
C5_Witness ==
    /\ pc = "x_collect"
    /\ Len(futures) >= 3
    /\ collected = {Len(futures), 1}
    /\ _process_chunk(futures[1]).public # {}
    /\ _process_chunk(futures[Len(futures)]).public # {}
    /\ _process_chunk(futures[1]).public # _process_chunk(futures[Len(futures)]).public

\* C6: each returned sequence is strictly increasing in the order of str, so
\* '100.0.0.1' comes before '2.2.2.2', and holds each address of its set once.
C6_SortedDistinct ==
    Returned =>
        /\ StrictlyIncreasing(result.private)
        /\ StrictlyIncreasing(result.public)
        /\ log = << >> =>
              /\ Range(result.private) = private_acc
              /\ Range(result.public) = public_acc
              /\ Len(result.private) = Cardinality(private_acc)
              /\ Len(result.public) = Cardinality(public_acc)
        /\ \A i, j \in 1..Len(result.public) :
              result.public[i] = IPv4(100, 0, 0, 1) /\ result.public[j] = IPv4(2, 2, 2, 2)
                  => i < j

\* '2.2.2.2' occurs in two chunks and '100.0.0.1' after it in the file
C6_Witness ==
    /\ ReturnedNormally
    /\ futures = << IPv4(2, 2, 2, 2) \o <<32, 32>>, IPv4(2, 2, 2, 2) \o <<32, 32>>,
                    IPv4(100, 0, 0, 1) >>
    /\ result.public = <<IPv4(100, 0, 0, 1), IPv4(2, 2, 2, 2)>>

\* The result over all chunks read from the file
CompleteResult ==
    [private |-> sorted(UNION {_process_chunk(ch).private : ch \in Range(futures)}),
     public |-> sorted(UNION {_process_chunk(ch).public : ch \in Range(futures)})]

\* C7: extract_ips_from_file never raises; it returns two empty sequences when
\* the file is missing, not a regular file or empty, or when anything raised,
\* and the complete result over all chunks otherwise.
C7_NeverRaisesEmptyOrComplete ==
    /\ pc # "x_raised"
    /\ Returned =>
          IF log # << >> THEN result = NoResult ELSE result = CompleteResult

\* One document {ip: a} for each address a of ips, and no other document
HoldsExactly(coll, ips) ==
    /\ BagToSet(coll) = {[ip |-> a] : a \in Range(ips)}
    /\ \A d \in BagToSet(coll) : CopiesIn(d, coll) = 1

\* C8: once a run has completed its store write, each collection holds exactly
\* one document for each address of that run's result and nothing else.
C8_StoreReplaced ==
    pc = "m_close" => HoldsExactly(private_coll, private_ips) /\ HoldsExactly(public_coll, public_ips)

\* The run removed the three documents of an earlier run and wrote two
C8_Witness ==
    /\ pc = "m_close"
    /\ deleted_count = 3
    /\ private_ips = <<IPv4(10, 0, 0, 5)>>
    /\ public_ips = <<IPv4(2, 2, 2, 2)>>
    /\ private_coll = SetToBag({[ip |-> IPv4(10, 0, 0, 5)]})
    /\ public_coll = SetToBag({[ip |-> IPv4(2, 2, 2, 2)]})

\* C9: whatever error a run meets, a further run starts.
C9_NextRunStarts == (log # << >>) ~> (pc = "m_connect")

\* main has returned from a failed insert and the loop is about to call it again
C9_Witness ==
    /\ pc = "loop"
    /\ log = <<"Execution error", "insert_many">>

\* C10: when a run starts, the file handle, the worker pool and the store
\* connections of earlier runs are closed.
C10_ResourcesReleased ==
    pc = "m_connect" => ~file_open /\ ~pool_open /\ ~client_open /\ ~unclosed

====
